---- MODULE Spec2Model ----
(***************************************************************************)
(* Model of src/App.js: the install workflow of the MindSprouts catalog    *)
(* (requestPermission, installGame, the Install button of renderGame).     *)
(*                                                                         *)
(* Every call of installGame is a "run".  A run is suspended at its awaits *)
(* (permission request, download, installer intent, install query, app     *)
(* launch); between two awaits its code executes atomically, as JavaScript *)
(* runs one task at a time.  Taps, promise completions and timer firings   *)
(* interleave freely.                                                      *)
(***************************************************************************)
EXTENDS Integers, Sequences, FiniteSets, Bags, TLC

\* ---------------------------------------------------------------- bounds
MaxRuns == 2          \* calls of installGame explored (user taps)
NumItems == 2         \* entries of the games catalog
MaxInFlight == 2      \* isAppInstalled promises of one session pending together
MaxTicks == 4         \* interval periods of one polling session that are explored
MaxTitleLen == 2      \* length of the generated titles

\* ------------------------------------------------------ program constants
IntervalMs == 2000    \* setInterval(..., 2000)
DeadlineMs == 20000   \* setTimeout(..., 20000)
MinSdkNoPrompt == 29  \* Platform.Version < 29
HttpOk == 200         \* result.statusCode === 200

\* The polling session explored: the code's 20 s, cut to MaxTicks periods of
\* the interval when that is shorter.
SessionMs ==
  IF MaxTicks * IntervalMs < DeadlineMs THEN MaxTicks * IntervalMs ELSE DeadlineMs

Items == 1..NumItems
NULL == 0

\* Platform.OS / Platform.Version: an Android below API 29, where
\* requestPermission prompts, and the two kinds of device where it does not.
LegacyAndroid == [OS |-> "android", Version |-> MinSdkNoPrompt - 1]
Platforms ==
  { LegacyAndroid,
    [OS |-> "android", Version |-> MinSdkNoPrompt],
    [OS |-> "ios", Version |-> MinSdkNoPrompt] }

\* PermissionsAndroid.request resolves with one of PermissionsAndroid.RESULTS
PermissionOutcomes == {"granted", "denied", "never_ask_again"}
\* RNFS.downloadFile(...).promise resolves with a status code, or rejects.
StatusCodes == {HttpOk, 206, 404}

VARIABLES
  Platform,         \* Platform.OS / Platform.Version of the device
  downloadingGame,  \* useState(null): id of the item shown as busy, or NULL
  runs,             \* the calls of installGame made so far: a bag of run records
  title,            \* file-name derivation: game.title (a sequence of characters)
  dest,             \* file-name derivation: the derived file name, <<>> before
  outcomes          \* one polling session watched alone: how its install
                    \* queries and launches settled, in the order they did

vars == <<Platform, downloadingGame, runs, title, dest, outcomes>>
runVars == <<Platform, downloadingGame, runs>>
nameVars == <<title, dest>>
restVars == <<nameVars, outcomes>>

\* ------------------------------------------------- destination file name
Upper == {"A","B","C","D","E","F","G","H","I","J","K","L","M",
          "N","O","P","Q","R","S","T","U","V","W","X","Y","Z"}
Lower == {"a","b","c","d","e","f","g","h","i","j","k","l","m",
          "n","o","p","q","r","s","t","u","v","w","x","y","z"}
Digit == {"0","1","2","3","4","5","6","7","8","9"}
AlphaNum == Upper \cup Lower \cup Digit
WhiteSpace == {" ", "\t", "\n"}

\* ReplaceNonAlnum with a fault: replace(/[^a-zA-Z0-9]/g, "")
RemoveNonAlnum(t) == SelectSeq(t, LAMBDA c : c \in AlphaNum)

\* String.prototype.replace(/[^a-zA-Z0-9]/g, "_")
ReplaceNonAlnum(t) == [i \in 1..Len(t) |-> IF t[i] \in AlphaNum THEN t[i] ELSE "_"]

RECURSIVE TrimStart(_)
TrimStart(t) ==
  IF t # <<>> /\ Head(t) \in WhiteSpace THEN TrimStart(Tail(t)) ELSE t

RECURSIVE TrimEnd(_)
TrimEnd(t) ==
  IF t # <<>> /\ t[Len(t)] \in WhiteSpace
    THEN TrimEnd(SubSeq(t, 1, Len(t) - 1))
    ELSE t

\* String.prototype.trim()
Trim(t) == TrimEnd(TrimStart(t))

ApkExt == <<".", "a", "p", "k">>

\* `${game.title.replace(/[^a-zA-Z0-9]/g, "_").trim()}.apk`
DestFileName(t) == Trim(ReplaceNonAlnum(t)) \o ApkExt

\* The title of the spec's scenario, "Space Jump!"
SpaceJump == <<"S","p","a","c","e"," ","J","u","m","p","!">>

TitleChars == {"a", "Z", "7", " ", "!", "_", "-"}
Titles ==
  UNION {[1..n -> TitleChars] : n \in 0..MaxTitleLen} \cup {SpaceJump}

NativeCalls == {"requestPermission", "downloadFile", "actionViewIntent", "startApp"}

(***************************************************************************)
(* A run is one call of installGame(game): its locals and what it did.     *)
(*   game         game.id                                                  *)
(*   pc           the await the call is suspended at ("awaitPermission",   *)
(*                "downloading", "handingOff"), or how it returned:        *)
(*                "denied" (line 46), "polling" (timers installed, line    *)
(*                92), "downloadFailed" (line 95), "error" (catch block)   *)
(*   ok           const ok = await requestPermission()                     *)
(*   status       result.statusCode, 0 before the download resolved        *)
(*   caught       the await whose rejection reached the catch block        *)
(*   alerts       the Alert.alert calls of the run, in order               *)
(*   calls        how often the run issued each native call                *)
(*   nextTick     due time (ms after setInterval) of checkInterval's next  *)
(*                firing; 0 when the run has no live interval              *)
(*   deadline     the setTimeout(..., 20000) timer is pending              *)
(*   inFlight     isAppInstalled promises not settled yet                  *)
(*   clearedBy    who called clearInterval(checkInterval), in order        *)
(* Runs carry no identity in the code, so they are kept as a bag.          *)
(***************************************************************************)
NewRun(i) ==
  [game |-> i, pc |-> "start", ok |-> "unset", status |-> 0, caught |-> "none",
   alerts |-> <<>>, calls |-> [c \in NativeCalls |-> 0],
   nextTick |-> 0, deadline |-> FALSE, inFlight |-> 0, clearedBy |-> <<>>]

Called(run, c) == [run.calls EXCEPT ![c] = @ + 1]

\* ------------------------------------------------------------ the button
\* renderGame: disabled={downloadingGame === item.id}
ButtonEnabled(i) == downloadingGame # i

\* --------------------------------------------------------- the permission
\* requestPermission reaches PermissionsAndroid.request only on Android < 29
NeedsPrompt(p) == p.OS = "android" /\ p.Version < MinSdkNoPrompt

\* granted === PermissionsAndroid.RESULTS.GRANTED
IsGranted(res) == res = "granted"

\* IsOk with a fault: every status from 200 up counts as success
IsOkAnyStatus(code) == code >= HttpOk

\* result.statusCode === 200
IsOk(code) == code = HttpOk

\* --------------------------------------------------- pieces of installGame
\* lines 29-34: requestPermission suspends at PermissionsAndroid.request
AskPermission(run) ==
  [run EXCEPT !.pc = "awaitPermission", !.calls = Called(run, "requestPermission")]

\* lines 49-59: the run may write; it tells the user and starts the
\* download, at whose await it suspends (the busy mark is set by the action)
BeginDownload(run) ==
  [run EXCEPT !.ok = "true",
              !.alerts = Append(@, "Downloading"),
              !.calls = Called(run, "downloadFile"),
              !.pc = "downloading"]

\* OnDenied with a fault: the `return` of line 46 is missing
OnDeniedFallsThrough(run) ==
  [run EXCEPT !.ok = "false",
              !.alerts = @ \o <<"Permission Denied", "Downloading">>,
              !.calls = Called(run, "downloadFile"),
              !.pc = "downloading"]

\* lines 44-47: permission refused, the call returns
OnDenied(run) ==
  [run EXCEPT !.ok = "false",
              !.alerts = Append(@, "Permission Denied"),
              !.pc = "denied"]

\* lines 61-70: status 200, the installer intent is started and awaited
BeginHandoff(run, code) ==
  [run EXCEPT !.status = code,
              !.calls = Called(run, "actionViewIntent"),
              !.pc = "handingOff"]

\* OnDownloadFailed with a fault: the download is started again
OnDownloadFailedRetries(run, code) ==
  [run EXCEPT !.status = code,
              !.alerts = Append(@, "Download failed"),
              !.calls = Called(run, "downloadFile"),
              !.pc = "downloading"]

\* lines 93-96: any other status
OnDownloadFailed(run, code) ==
  [run EXCEPT !.status = code,
              !.alerts = Append(@, "Download failed"),
              !.pc = "downloadFailed"]

\* lines 76-92: the interval and the deadline timer are installed and
\* installGame returns
StartPolling(run) ==
  [run EXCEPT !.nextTick = IntervalMs, !.deadline = TRUE, !.pc = "polling"]

\* lines 97-101: the catch block of installGame, entered from await `from`
Catch(run, from) ==
  [run EXCEPT !.caught = from,
              !.alerts = Append(@, "Could not install APK"),
              !.pc = "error"]

\* lines 77-79: one firing of checkInterval
OnTick(run) ==
  [run EXCEPT !.nextTick = @ + IntervalMs, !.inFlight = @ + 1]

\* lines 80-84: isAppInstalled resolved with true
OnInstalled(run) ==
  [run EXCEPT !.inFlight = @ - 1,
              !.nextTick = 0,
              !.clearedBy = Append(@, "check"),
              !.alerts = Append(@, "Installed"),
              !.calls = Called(run, "startApp")]

\* OnLaunchRaised with a fault: the rejection of the launch is reported like
\* a failure of installGame
OnLaunchRaisedReported(run) ==
  [run EXCEPT !.caught = "launch",
              !.alerts = Append(@, "Could not install APK"),
              !.pc = "error"]

\* lines 84-88: startAppByPackageName raised into the callback's catch, which
\* writes a console line and nothing else
OnLaunchRaised(run) == run

\* OnNotInstalled with a fault: line 80 does not test the result
OnNotInstalledReported(run) ==
  [run EXCEPT !.inFlight = @ - 1,
              !.nextTick = 0,
              !.clearedBy = Append(@, "check"),
              !.alerts = Append(@, "Installed")]

\* lines 79-80, 85: isAppInstalled resolved with false
OnNotInstalled(run) == [run EXCEPT !.inFlight = @ - 1]

\* OnCheckRaised with a fault: the callback has no try/catch of its own and
\* the failure is reported like one of installGame
OnCheckRaisedReported(run) ==
  [run EXCEPT !.inFlight = @ - 1,
              !.caught = "check",
              !.alerts = Append(@, "Could not install APK"),
              !.pc = "error"]

\* OnCheckRaised with a fault: a query that raised ends the polling
OnCheckRaisedCancels(run) ==
  [run EXCEPT !.inFlight = @ - 1,
              !.nextTick = 0,
              !.clearedBy = Append(@, "check")]

\* lines 79, 86-88: isAppInstalled raised into the callback's catch, which
\* writes a console line and nothing else
OnCheckRaised(run) == [run EXCEPT !.inFlight = @ - 1]

\* line 92: the deadline timer's callback
OnDeadline(run) ==
  [run EXCEPT !.deadline = FALSE,
              !.nextTick = 0,
              !.clearedBy = Append(@, "deadline")]

\* BusyAfterHandoff with a fault: line 73 is missing
BusyKeptAfterHandoff(d) == d

\* line 73: the value setDownloadingGame receives once the installer opened
BusyAfterHandoff(d) == NULL

\* line 95: the value setDownloadingGame receives after a failed download
BusyAfterDownloadFailed(d) == NULL

\* BusyAfterCatch with a fault: line 99 is missing
BusyKeptAfterCatch(d) == d

\* line 99: the value setDownloadingGame receives in the catch block
BusyAfterCatch(d) == NULL

\* ------------------------------------------------------------------ Init
\* The app after its first render, nothing tapped yet.  Spec runs it on a
\* legacy Android: there every line of installGame can execute, and what a
\* run does on the other platforms is what it does here when the prompt is
\* granted at once.  SpecAnyPlatform starts on any of the three.
InitOn(platforms) ==
  /\ Platform \in platforms
  /\ downloadingGame = NULL
  /\ runs = EmptyBag
  /\ title = <<>>
  /\ dest = <<>>
  /\ outcomes = <<>>

Init == InitOn({LegacyAndroid})

InitAnyPlatform == InitOn(Platforms)

\* --------------------------------------------------------------- actions
ActiveRuns == BagToSet(runs)

\* run `old` continues as `new`
Becomes(old, new) == runs' = (runs (-) SetToBag({old})) (+) SetToBag({new})

\* onPress={() => installGame(item)}: the user taps the Install button of
\* item i, which starts a run up to its first await that suspends.
Tap(i) ==
  /\ BagCardinality(runs) < MaxRuns
  /\ ButtonEnabled(i)
  /\ IF NeedsPrompt(Platform)
       THEN /\ runs' = runs (+) SetToBag({AskPermission(NewRun(i))})
            /\ UNCHANGED downloadingGame
       ELSE /\ runs' = runs (+) SetToBag({BeginDownload(NewRun(i))})
            /\ downloadingGame' = i
  /\ UNCHANGED <<Platform, restVars>>

\* PermissionsAndroid.request resolves (lines 32-35, then 43-59)
PermissionDone(run, res) ==
  /\ run.pc = "awaitPermission"
  /\ IF IsGranted(res)
       THEN /\ Becomes(run, BeginDownload(run))
            /\ downloadingGame' = run.game
       ELSE /\ Becomes(run, OnDenied(run))
            /\ UNCHANGED downloadingGame
  /\ UNCHANGED <<Platform, restVars>>

\* PermissionsAndroid.request rejects (lines 32, 43, then 97-101)
PermissionRaise(run) ==
  /\ run.pc = "awaitPermission"
  /\ Becomes(run, Catch(run, "permission"))
  /\ downloadingGame' = BusyAfterCatch(downloadingGame)
  /\ UNCHANGED <<Platform, restVars>>

\* RNFS.downloadFile(...).promise resolves with a status code (lines 56-70, 93-96)
DownloadDone(run, code) ==
  /\ run.pc = "downloading"
  /\ IF IsOk(code)
       THEN /\ Becomes(run, BeginHandoff(run, code))
            /\ UNCHANGED downloadingGame
       ELSE /\ Becomes(run, OnDownloadFailed(run, code))
            /\ downloadingGame' = BusyAfterDownloadFailed(downloadingGame)
  /\ UNCHANGED <<Platform, restVars>>

\* RNFS.downloadFile(...).promise rejects (lines 56-59, 97-101)
DownloadRaise(run) ==
  /\ run.pc = "downloading"
  /\ Becomes(run, Catch(run, "download"))
  /\ downloadingGame' = BusyAfterCatch(downloadingGame)
  /\ UNCHANGED <<Platform, restVars>>

\* RNFetchBlob.android.actionViewIntent resolves (lines 66-92)
HandoffDone(run) ==
  /\ run.pc = "handingOff"
  /\ Becomes(run, StartPolling(run))
  /\ downloadingGame' = BusyAfterHandoff(downloadingGame)
  /\ UNCHANGED <<Platform, restVars>>

\* RNFetchBlob.android.actionViewIntent rejects (lines 66-70, 97-101)
HandoffRaise(run) ==
  /\ run.pc = "handingOff"
  /\ Becomes(run, Catch(run, "handoff"))
  /\ downloadingGame' = BusyAfterCatch(downloadingGame)
  /\ UNCHANGED <<Platform, restVars>>

\* checkInterval fires (lines 77-79): the callback issues an install query
\* and suspends at its await.  A firing due after the deadline loses to it.
Tick(run) ==
  /\ run.nextTick # 0
  /\ run.nextTick <= SessionMs
  /\ run.inFlight < MaxInFlight
  /\ Becomes(run, OnTick(run))
  /\ UNCHANGED <<Platform, downloadingGame, restVars>>

\* IntentLauncher.isAppInstalled resolves with false
CheckNotInstalled(run) ==
  /\ run.inFlight > 0
  /\ Becomes(run, OnNotInstalled(run))
  /\ UNCHANGED <<Platform, downloadingGame, restVars>>

\* IntentLauncher.isAppInstalled rejects
CheckRaise(run) ==
  /\ run.inFlight > 0
  /\ Becomes(run, OnCheckRaised(run))
  /\ UNCHANGED <<Platform, downloadingGame, restVars>>

\* IntentLauncher.isAppInstalled resolves with true and the launch returns
CheckInstalled(run) ==
  /\ run.inFlight > 0
  /\ Becomes(run, OnInstalled(run))
  /\ UNCHANGED <<Platform, downloadingGame, restVars>>

\* IntentLauncher.isAppInstalled resolves with true and the launch raises
CheckInstalledLaunchRaise(run) ==
  /\ run.inFlight > 0
  /\ Becomes(run, OnLaunchRaised(OnInstalled(run)))
  /\ UNCHANGED <<Platform, downloadingGame, restVars>>

\* the 20 s timer fires (line 92).  While the interval is live this happens
\* once the interval's next firing is due at the deadline or later.
DeadlineFires(run) ==
  /\ run.deadline
  /\ run.nextTick = 0 \/ run.nextTick >= SessionMs
  /\ Becomes(run, OnDeadline(run))
  /\ UNCHANGED <<Platform, downloadingGame, restVars>>

Next ==
  \/ \E i \in Items : Tap(i)
  \/ \E run \in ActiveRuns, res \in PermissionOutcomes : PermissionDone(run, res)
  \/ \E run \in ActiveRuns : PermissionRaise(run)
  \/ \E run \in ActiveRuns, code \in StatusCodes : DownloadDone(run, code)
  \/ \E run \in ActiveRuns : DownloadRaise(run)
  \/ \E run \in ActiveRuns : HandoffDone(run)
  \/ \E run \in ActiveRuns : HandoffRaise(run)
  \/ \E run \in ActiveRuns : Tick(run)
  \/ \E run \in ActiveRuns : CheckNotInstalled(run)
  \/ \E run \in ActiveRuns : CheckRaise(run)
  \/ \E run \in ActiveRuns : CheckInstalled(run)
  \/ \E run \in ActiveRuns : CheckInstalledLaunchRaise(run)
  \/ \E run \in ActiveRuns : DeadlineFires(run)

Spec == Init /\ [][Next]_vars

SpecAnyPlatform == InitAnyPlatform /\ [][Next]_vars

\* --------------------------------------- the file-name derivation alone
InitName ==
  /\ Platform = LegacyAndroid
  /\ downloadingGame = NULL
  /\ runs = EmptyBag
  /\ title \in Titles
  /\ dest = <<>>
  /\ outcomes = <<>>

\* lines 52-54
Derive ==
  /\ dest = <<>>
  /\ dest' = DestFileName(title)
  /\ UNCHANGED <<title, runVars, outcomes>>

NextName == Derive

SpecName == InitName /\ [][NextName]_vars

\* ------------------------------------------- one polling session alone
\* The timers and callbacks of lines 77-92 read and write nothing but their
\* own closure, so a session is also run here by itself, with the way each
\* install query and each launch settled written down in `outcomes`.

\* a run of item i at line 92, as Spec brings it there on a legacy Android
PollingRun(i) ==
  StartPolling(BeginHandoff(BeginDownload(AskPermission(NewRun(i))), HttpOk))

InitSession ==
  /\ Platform = LegacyAndroid
  /\ downloadingGame = NULL
  /\ \E i \in Items : runs = SetToBag({PollingRun(i)})
  /\ title = <<>>
  /\ dest = <<>>
  /\ outcomes = <<>>

\* an install query of `run` settles, `run` continues as `new`, and `how`
\* it settled is written down
Settles(run, new, how) ==
  /\ run.inFlight > 0
  /\ Becomes(run, new)
  /\ outcomes' = outcomes \o how
  /\ UNCHANGED <<Platform, downloadingGame, nameVars>>

\* lines 77-79
SessionTick == \E run \in ActiveRuns : Tick(run)

\* lines 79-80, 85
SessionCheckNotInstalled ==
  \E run \in ActiveRuns : Settles(run, OnNotInstalled(run), <<"false">>)

\* lines 79, 86-88
SessionCheckRaise ==
  \E run \in ActiveRuns : Settles(run, OnCheckRaised(run), <<"raised">>)

\* lines 79-85
SessionCheckInstalled ==
  \E run \in ActiveRuns :
    Settles(run, OnInstalled(run), <<"true", "launched">>)

\* lines 79-84, 86-88
SessionCheckInstalledLaunchRaise ==
  \E run \in ActiveRuns :
    Settles(run, OnLaunchRaised(OnInstalled(run)), <<"true", "launch raised">>)

\* line 92
SessionDeadlineFires == \E run \in ActiveRuns : DeadlineFires(run)

NextSession ==
  \/ SessionTick
  \/ SessionCheckNotInstalled
  \/ SessionCheckRaise
  \/ SessionCheckInstalled
  \/ SessionCheckInstalledLaunchRaise
  \/ SessionDeadlineFires

SpecSession == InitSession /\ [][NextSession]_vars

\* how many of the settled install queries resolved with true
Count(seq, x) == Cardinality({k \in 1..Len(seq) : seq[k] = x})


\* ------------------------------------------------- workflow state of a run
HasAlert(run, a) == \E k \in 1..Len(run.alerts) : run.alerts[k] = a

\* the notifications of an outcome: every alert but the progress notice
OutcomeAlerts(run) == SelectSeq(run.alerts, LAMBDA a : a # "Downloading")

\* Failed(reason): permission denied, download failed, or the catch block
Failed(run) == run.pc \in {"denied", "downloadFailed", "error"}

\* PollingForInstall: the timers are installed and nothing has cleared them
PollingForInstall(run) == run.pc = "polling" /\ run.clearedBy = <<>>

\* Installed: a check reported the package present before the deadline fired
InstalledFirst(run) == run.clearedBy # <<>> /\ Head(run.clearedBy) = "check"

\* TimedOut: the deadline fired and no check had reported the package present
TimedOut(run) == run.clearedBy # <<>> /\ Head(run.clearedBy) = "deadline"

Terminal(run) == Failed(run) \/ InstalledFirst(run) \/ TimedOut(run)

NonTerminal(run) ==
  run.pc \in {"awaitPermission", "downloading", "handingOff"} \/ PollingForInstall(run)

\* no timer of the run was ever installed and no install query ever issued
NeverPolled(run) ==
  /\ run.nextTick = 0
  /\ ~run.deadline
  /\ run.inFlight = 0
  /\ run.clearedBy = <<>>
  /\ ~HasAlert(run, "Installed")

\* run `run` takes a step
Steps(run) == CopiesIn(run, runs') < CopiesIn(run, runs)

\* =================================================================== claims

\* C1 (as claimed): at no time are two runs of the same item both
\* non-terminal (awaiting permission, downloading, handing off or polling).
C1_OneRunPerItem ==
  \A a \in ActiveRuns :
    NonTerminal(a) =>
      /\ CopiesIn(a, runs) = 1
      /\ \A b \in ActiveRuns \ {a} : NonTerminal(b) => b.game # a.game

\* C2 (as claimed): each item has at most one live poll handle, that is at
\* most one run whose repeating install check is active.
C2_OnePollHandlePerItem ==
  \A a \in ActiveRuns :
    a.nextTick # 0 =>
      /\ CopiesIn(a, runs) = 1
      /\ \A b \in ActiveRuns \ {a} : b.nextTick # 0 => b.game # a.game

\* C3 (as claimed): when a check returns true before the deadline fires, the
\* run is Installed and its repeating check is canceled once and never again.
C3_ReleasedOnceWhenInstalled ==
  \A run \in ActiveRuns :
    InstalledFirst(run) =>
      /\ HasAlert(run, "Installed")
      /\ Len(run.clearedBy) = 1

\* C4 (as claimed): when the deadline fires before any check returned true,
\* the run is TimedOut, its repeating check is canceled once and never again,
\* and no further check can start.
C4_ReleasedOnceWhenTimedOut ==
  \A run \in ActiveRuns :
    TimedOut(run) =>
      /\ run.nextTick = 0
      /\ Len(run.clearedBy) = 1

\* C5: a run whose permission gate returned false shows exactly one alert,
\* "Permission Denied", and never calls the download, never calls the
\* installer intent and never installs a timer or issues an install query.
C5_DeniedStopsRun ==
  \A run \in ActiveRuns :
    run.ok = "false" =>
      /\ run.alerts = <<"Permission Denied">>
      /\ run.calls["downloadFile"] = 0
      /\ run.calls["actionViewIntent"] = 0
      /\ NeverPolled(run)

C5_Witness ==
  \E run \in ActiveRuns : run.ok = "false" /\ run.pc = "denied"

\* C6: a run whose download resolved with a status other than 200 has ended
\* with the "Download failed" alert as its only outcome, has never called the
\* installer intent and has never installed a timer or issued an install query.
C6_Non200EndsInDownloadFailed ==
  \A run \in ActiveRuns :
    run.status \notin {0, HttpOk} =>
      /\ run.pc = "downloadFailed"
      /\ OutcomeAlerts(run) = <<"Download failed">>
      /\ run.calls["actionViewIntent"] = 0
      /\ NeverPolled(run)

C6_Witness ==
  \E run \in ActiveRuns : run.status = 404 /\ run.calls["downloadFile"] = 1

\* C7 (as claimed): a run whose download resolved with status 200 has called
\* the installer intent and is never Failed, whatever the handoff does.
C7_Status200NeverFailed ==
  \A run \in ActiveRuns :
    run.status = HttpOk =>
      /\ run.calls["actionViewIntent"] = 1
      /\ ~Failed(run)

\* C7 (amended): a run whose download resolved with status 200 has called the
\* installer intent, and it is Failed only when that call itself raised, in
\* which case it never polled; after the call returned, no check result and
\* no launch result makes the run Failed.
C7_Status200FailsOnlyInHandoff ==
  \A run \in ActiveRuns :
    run.status = HttpOk =>
      /\ run.calls["actionViewIntent"] = 1
      /\ Failed(run) =>
           /\ run.pc = "error"
           /\ run.caught = "handoff"
           /\ NeverPolled(run)
      /\ run.pc = "polling" => OutcomeAlerts(run) \in {<<>>} \cup Seq({"Installed"})

C7_Witness ==
  \E run \in ActiveRuns :
    /\ run.status = HttpOk
    /\ run.pc = "polling"
    /\ ~run.deadline
    /\ run.inFlight = 0
    /\ run.calls["startApp"] > 0

\* what stripping would give: the characters of [A-Za-z0-9] only
Stripped(t) == SelectSeq(t, LAMBDA c : c \in AlphaNum)

\* "SpaceJump.apk" and "Space_Jump_.apk"
SpaceJumpStripped == <<"S","p","a","c","e","J","u","m","p",".","a","p","k">>
SpaceJumpReplaced ==
  <<"S","p","a","c","e","_","J","u","m","p","_",".","a","p","k">>

C9_OneNotificationPerOutcome ==
  \A run \in ActiveRuns : Terminal(run) => Len(OutcomeAlerts(run)) = 1

\* C10: the step in which a run's handoff call completes or raises leaves the
\* busy indicator cleared, and no later step of that run (a firing of its
\* interval, a settled install query or launch, its deadline) changes the
\* indicator, whether polling ends in Installed or in TimedOut.
C10_BusyClearedAtHandoff ==
  [][\A run \in ActiveRuns :
       Steps(run) =>
         /\ run.pc = "handingOff" => downloadingGame' = NULL
         /\ run.pc = "polling" => downloadingGame' = downloadingGame]_vars

C10_Witness ==
  \E run \in ActiveRuns :
    /\ run.pc = "polling"
    /\ Terminal(run)
    /\ run.inFlight = 0
    /\ downloadingGame = NULL

\* the item's button is disabled and its label reads "Installing..."
ShownBusy(i) == downloadingGame = i

\* `a` is the only run of its item
OnlyRunOfItem(a) ==
  /\ CopiesIn(a, runs) = 1
  /\ \A b \in ActiveRuns \ {a} : b.game # a.game

\* C11 (as claimed): runs of different items do not affect each other: while
\* the only run of an item is downloading or handing off, that item is shown
\* busy and its button is disabled, whatever the runs of other items do.
C11_BusyWhileTransferring ==
  \A a \in ActiveRuns :
    (a.pc \in {"downloading", "handingOff"} /\ OnlyRunOfItem(a)) =>
      /\ ShownBusy(a.game)
      /\ ~ButtonEnabled(a.game)

\* C12 (as claimed): when the outcome of a polling run is notified, both
\* timers of its poll handle, the repeating check and the deadline, have
\* been canceled; none is pending at or after the notification.
C12_TimersCanceledWhenNotified ==
  \A run \in ActiveRuns :
    (run.pc = "polling" /\ OutcomeAlerts(run) # <<>>) =>
      /\ run.nextTick = 0
      /\ ~run.deadline

\* C13: once a launch has raised in a session, its run stays Installed: it
\* has shown "Installed", it is not Failed and has shown no error alert, its
\* interval stays cleared, and no step after the raise is a firing of the
\* interval, so no further install query is issued.
C13_LaunchRaiseKeepsInstalled ==
  [][/\ Count(outcomes', "launch raised") > 0 =>
          \A run \in BagToSet(runs') :
            /\ HasAlert(run, "Installed")
            /\ ~Failed(run)
            /\ ~HasAlert(run, "Could not install APK")
            /\ run.caught = "none"
            /\ run.nextTick = 0
     /\ Count(outcomes, "launch raised") > 0 =>
          \A run \in ActiveRuns : ~Tick(run)]_vars

C13_Witness ==
  /\ outcomes = <<"false", "true", "launch raised">>
  /\ \E run \in ActiveRuns :
       /\ OutcomeAlerts(run) = <<"Installed">>
       /\ run.inFlight = 0
       /\ ~run.deadline

\* C14: the step in which an install query raises shows no alert, leaves
\* the interval scheduled as it was, cancels nothing and does not make the
\* run Failed; and as long as no query has resolved with true and the
\* deadline has not fired, the interval is live, however many queries raised.
C14_CheckRaiseIsNotInstalled ==
  [][\A run \in ActiveRuns, new \in BagToSet(runs') :
       /\ outcomes' = Append(outcomes, "raised") =>
            /\ new.alerts = run.alerts
            /\ new.nextTick = run.nextTick
            /\ new.deadline = run.deadline
            /\ new.clearedBy = run.clearedBy
            /\ new.pc = run.pc
            /\ ~Failed(new)
            /\ new.inFlight = run.inFlight - 1
       /\ (Count(outcomes', "true") = 0 /\ new.deadline) =>
            /\ new.nextTick # 0
            /\ OutcomeAlerts(new) = <<>>
            /\ ~Failed(new)]_vars

C14_Witness ==
  /\ outcomes = <<"raised", "raised", "true", "launched">>
  /\ \E run \in ActiveRuns :
       /\ OutcomeAlerts(run) = <<"Installed">>
       /\ run.inFlight = 0
       /\ run.deadline

\* C15 (as claimed): a run whose deadline fired before any install query
\* resolved with true shows no "Installed" alert and attempts no launch, also
\* when a query issued before the deadline resolves with true after it.
C15_NothingAfterTimedOut ==
  \A run \in ActiveRuns :
    TimedOut(run) =>
      /\ ~HasAlert(run, "Installed")
      /\ run.calls["startApp"] = 0

\* C16 (as claimed): the permission gate never raises into installGame: a
\* run whose permission request was issued and did not let it through has
\* ended as denied with the single alert "Permission Denied"; and where no
\* prompt is needed no request is issued and the gate returned true.
C16_GateNeverRaises ==
  \A run \in ActiveRuns :
    /\ run.caught # "permission"
    /\ (run.calls["requestPermission"] > 0
          /\ run.pc # "awaitPermission" /\ run.ok # "true") =>
         /\ run.ok = "false"
         /\ run.pc = "denied"
         /\ run.alerts = <<"Permission Denied">>
    /\ ~NeedsPrompt(Platform) =>
         /\ run.calls["requestPermission"] = 0
         /\ run.ok = "true"

\* C17: a run calls downloadFile at most once and actionViewIntent at most
\* once; a run that ended with a failed download or a download that raised
\* has called downloadFile once and actionViewIntent never, and a run whose
\* handoff raised has called each once.
C17_TransferAndHandoffOnce ==
  \A run \in ActiveRuns :
    /\ run.calls["downloadFile"] <= 1
    /\ run.calls["actionViewIntent"] <= 1
    /\ (run.pc = "downloadFailed" \/ run.caught = "download") =>
         /\ run.calls["downloadFile"] = 1
         /\ run.calls["actionViewIntent"] = 0
    /\ run.caught = "handoff" =>
         /\ run.calls["downloadFile"] = 1
         /\ run.calls["actionViewIntent"] = 1

C17_Witness ==
  /\ \E run \in ActiveRuns : run.caught = "handoff" /\ run.pc = "error"
  /\ \E run \in ActiveRuns : run.pc = "downloadFailed"

\* C18: a session has shown "Installed" exactly as often as one of its
\* install queries resolved with true: while every settled query resolved
\* with false or raised nothing is reported, and after false, false, false,
\* true it is reported, with the fourth query.
C18_InstalledOnlyOnTrue ==
  \A run \in ActiveRuns :
    /\ Count(run.alerts, "Installed") = Count(outcomes, "true")
    /\ run.calls["startApp"] = Count(outcomes, "true")
    /\ Count(outcomes, "true") = 0 => run.clearedBy \in {<<>>, <<"deadline">>}

C18_Witness ==
  /\ outcomes = <<"false", "false", "false", "true", "launched">>
  /\ \E run \in ActiveRuns :
       /\ OutcomeAlerts(run) = <<"Installed">>
       /\ InstalledFirst(run)
       /\ run.inFlight = 0

\* C19: whenever no run of any item is downloading or handing off, the busy
\* indicator downloadingGame is null, whichever way the runs interleaved and
\* ended.
C19_BusyNeverStuck ==
  (\A run \in ActiveRuns : run.pc \notin {"downloading", "handingOff"}) =>
    downloadingGame = NULL

C19_Witness ==
  /\ downloadingGame = NULL
  /\ \E a, b \in ActiveRuns :
       /\ a.game # b.game
       /\ a.caught = "download"
       /\ b.pc \in {"downloadFailed", "polling"}

====
